---- MODULE Spec2Model ----
(***************************************************************************)
(* Model of the outbound Reddit API access layer of                       *)
(* src/src/services/redditService.js: the application-only token          *)
(* (accessToken, tokenExpiry, isFetchingToken), the pacing clock           *)
(* (lastRequestTime), the request interceptor of the redditApi axios       *)
(* instance and the axios-retry policy installed on it.                    *)
(*                                                                         *)
(* Node.js runs every piece of code between two awaits to completion, so   *)
(* each action below is one such synchronous segment.  Time is Date.now()  *)
(* in milliseconds; timers fire at or after their deadline.                *)
(***************************************************************************)
EXTENDS Integers, Sequences, FiniteSets, TLC

\* ---- program constants ----
BASE_REQUEST_DELAY_MS == 1100
RETRY_COUNT == 3
TOKEN_WAIT_MS == 1000
EXPIRY_MARGIN_S == 60
BACKOFF_UNIT_MS == 1000

\* null / falsy values of accessToken and tokenExpiry
NoToken == 0
NoExpiry == 0

\* ---- bounds of the model ----
\* the clock is observed for MaxTime milliseconds after the module loaded
MaxTime == 8000
\* the clock advances in steps of ClockStep milliseconds
ClockStep == 1000
\* number of token exchanges that may be started
MaxExchanges == 3

\* Date.now() when the module is loaded; any value with
\* BootTime - 0 >= BASE_REQUEST_DELAY_MS behaves like the epoch clock
BootTime == 2 * BASE_REQUEST_DELAY_MS

\* the calls of redditApi.get the controllers make (getSubredditAbout issues
\* two together) and the module-load call of getAppOnlyToken
Clients == {"c1", "c2"}
Boot == "boot"
Procs == Clients \cup {Boot}

\* upstream answers to a resource call: an HTTP status, or NetErr for an
\* error without response that carries a code (connection reset, ...)
NetErr == 0
Statuses == {200, 400, 404, 429, 503, NetErr}
\* lifetimes (seconds) the token endpoint may report in expires_in
ExpiresInSet == {62, 3600}
\* answers of the token endpoint: a body with access_token, a non-2xx or
\* network failure, a 2xx body without access_token
ExchangeOutcomes == {"ok", "failed", "nobody"}

NoError == [src |-> "none", status |-> 0]
TokenFetchFailed == [src |-> "token", status |-> 0]
NoTokenAvailable == [src |-> "interceptor", status |-> 0]
UpstreamError(s) == [src |-> "upstream", status |-> s]

VARIABLES
    now,             \* Date.now()
    accessToken,     \* the held token (its number), NoToken when null
    tokenExpiry,     \* expiry instant of the held token, NoExpiry when null
    isFetchingToken, \* the refresh flag
    lastRequestTime, \* the pacing clock
    issued,          \* number of token exchanges started so far
    exchResult,      \* outcome of every completed exchange, in order
    pc,              \* where each caller is suspended
    wake,            \* deadline of the timer a caller sleeps on
    retryCount,      \* axios-retry's retryCount of the dispatch
    sent,            \* HTTP requests sent for the dispatch
    resp,            \* upstream answer to the latest request (-1: none yet)
    err,             \* error surfaced to the caller
    delays,          \* backoff delays scheduled for the dispatch
    only429,         \* every answer of the dispatch so far was 429
    waitFor,         \* exchange a caller found in flight when it waited
    lastSent,        \* instant of the latest HTTP request (-1: none)
    job,             \* the upstream payload a controller is normalising
    out,             \* the answer the controller gave for it
    call             \* the upstream call the controller issued for it

tokenVars == <<accessToken, tokenExpiry, isFetchingToken, issued, exchResult>>
procVars == <<pc, wake, retryCount, sent, resp, err, delays, only429, waitFor>>
paceVars == <<lastRequestTime, lastSent>>
normVars == <<job, out, call>>
vars == <<now, tokenVars, procVars, paceVars, normVars>>

RECURSIVE Pow2(_)
Pow2(n) == IF n <= 0 THEN 1 ELSE 2 * Pow2(n - 1)

Last(s) == s[Len(s)]

\* ---- redditService.js: isTokenValid ----
isTokenValid_Inverted ==
    accessToken # NoToken /\ tokenExpiry # NoExpiry /\ now > tokenExpiry

isTokenValid ==
    accessToken # NoToken /\ tokenExpiry # NoExpiry /\ now < tokenExpiry

\* ---- axios-retry options ----
retryDelay_OffByOne(n) == Pow2(n) * BACKOFF_UNIT_MS

retryDelay(n) == Pow2(n - 1) * BACKOFF_UNIT_MS

\* axiosRetry.isNetworkOrIdempotentRequestError for a GET: an error without
\* response that carries a code, or a 5xx answer
isNetworkOrIdempotentRequestError(s) == s = NetErr \/ (s >= 500 /\ s <= 599)

retryCondition_Any4xx(s) ==
    (s >= 400 /\ s <= 499) \/ isNetworkOrIdempotentRequestError(s)

retryCondition(s) == s = 429 \/ isNetworkOrIdempotentRequestError(s)

shouldRetry_Inclusive(n, s) == n <= RETRY_COUNT /\ retryCondition(s)

shouldRetry(n, s) == n < RETRY_COUNT /\ retryCondition(s)

\* ---- the request leaves a request interceptor with an error ----
\* the error has no config, so axios-retry passes it on to the caller
Reject(c, e) ==
    /\ pc' = [pc EXCEPT ![c] = "failed"]
    /\ err' = [err EXCEPT ![c] = e]
    /\ UNCHANGED <<sent, lastSent>>

\* the request is handed to the HTTP adapter with the bearer token tok
\* (axios sends "Bearer null" when tok is null)
Send(c, tok) ==
    /\ pc' = [pc EXCEPT ![c] = "inflight"]
    /\ sent' = [sent EXCEPT ![c] = @ + 1]
    /\ lastSent' = now
    /\ UNCHANGED err

\* ---- interceptor step 3: add the Authorization header ----
AttachHeader_Always(c, tok) == Send(c, tok)

AttachHeader(c, tok) ==
    IF tok # NoToken THEN Send(c, tok) ELSE Reject(c, NoTokenAvailable)

\* ---- getAppOnlyToken, up to its first await ----
StartExchange(p) ==
    /\ issued < MaxExchanges
    /\ isFetchingToken' = TRUE
    /\ issued' = issued + 1
    /\ pc' = [pc EXCEPT ![p] = "exchanging"]
    /\ wake' = [wake EXCEPT ![p] = 0]
    /\ UNCHANGED waitFor

WaitForExchange_ClearsFlag(p) ==
    /\ pc' = [pc EXCEPT ![p] = "tokenWait"]
    /\ wake' = [wake EXCEPT ![p] = now + TOKEN_WAIT_MS]
    /\ waitFor' = [waitFor EXCEPT ![p] = issued]
    /\ isFetchingToken' = FALSE
    /\ UNCHANGED issued

WaitForExchange(p) ==
    /\ pc' = [pc EXCEPT ![p] = "tokenWait"]
    /\ wake' = [wake EXCEPT ![p] = now + TOKEN_WAIT_MS]
    /\ waitFor' = [waitFor EXCEPT ![p] = issued]
    /\ UNCHANGED <<isFetchingToken, issued>>

getAppOnlyToken_NoFlagCheck(p) == StartExchange(p)

getAppOnlyToken(p) ==
    IF isFetchingToken THEN WaitForExchange(p) ELSE StartExchange(p)

\* ---- interceptor from the write of lastRequestTime to its next await ----
AfterPacing(c) ==
    /\ lastRequestTime' = now
    /\ IF isTokenValid
       THEN /\ AttachHeader(c, accessToken)
            /\ wake' = [wake EXCEPT ![c] = 0]
            /\ UNCHANGED <<isFetchingToken, issued, waitFor>>
       ELSE /\ getAppOnlyToken(c)
            /\ UNCHANGED <<sent, err, lastSent>>
    /\ UNCHANGED <<now, accessToken, tokenExpiry, exchResult,
                   retryCount, resp, delays, only429>>

\* ---- the controllers' normalisation input and answer ----
\* no payload is being normalised / no answer has been given
NoJob == [op |-> "none"]
NoOut == [status |-> 0]
\* no upstream call has been issued
NoCall == [path |-> "none"]

\* ---- a controller calls redditApi.get ----
Call(c) ==
    /\ c \in Clients
    /\ pc[c] = "idle"
    /\ pc' = [pc EXCEPT ![c] = "enter"]
    /\ wake' = [wake EXCEPT ![c] = 0]
    /\ retryCount' = [retryCount EXCEPT ![c] = 0]
    /\ sent' = [sent EXCEPT ![c] = 0]
    /\ resp' = [resp EXCEPT ![c] = -1]
    /\ err' = [err EXCEPT ![c] = NoError]
    /\ delays' = [delays EXCEPT ![c] = <<>>]
    /\ only429' = [only429 EXCEPT ![c] = TRUE]
    /\ waitFor' = [waitFor EXCEPT ![c] = 0]
    /\ UNCHANGED <<now, tokenVars, paceVars>>
    /\ UNCHANGED normVars

\* ---- the request interceptor starts: enforce the delay ----
Interceptor(c) ==
    /\ c \in Clients
    /\ pc[c] = "enter"
    /\ LET timeSinceLastRequest == now - lastRequestTime IN
       IF timeSinceLastRequest < BASE_REQUEST_DELAY_MS
       THEN /\ pc' = [pc EXCEPT ![c] = "pacing"]
            /\ wake' = [wake EXCEPT ![c] =
                          now + (BASE_REQUEST_DELAY_MS - timeSinceLastRequest)]
            /\ UNCHANGED <<now, tokenVars, paceVars, retryCount, sent,
                           resp, err, delays, only429, waitFor>>
       ELSE AfterPacing(c)
    /\ UNCHANGED normVars

\* ---- the pacing timer fired ----
PacingWake(c) ==
    /\ c \in Clients
    /\ pc[c] = "pacing"
    /\ now >= wake[c]
    /\ AfterPacing(c)
    /\ UNCHANGED normVars

\* ---- the 1000 ms timer of a waiting getAppOnlyToken fired ----
TokenWaitWake(c) ==
    /\ c \in Clients
    /\ pc[c] = "tokenWait"
    /\ now >= wake[c]
    /\ AttachHeader(c, accessToken)
    /\ wake' = [wake EXCEPT ![c] = 0]
    /\ waitFor' = [waitFor EXCEPT ![c] = 0]
    /\ UNCHANGED <<now, tokenVars, lastRequestTime, retryCount, resp,
                   delays, only429>>
    /\ UNCHANGED normVars

\* ---- the token endpoint answered ----
ExchangeSucceeds_KeepsExpiry(p, expiresIn) ==
    /\ accessToken' = issued
    /\ tokenExpiry' = IF tokenExpiry = NoExpiry
                      THEN now + (expiresIn - EXPIRY_MARGIN_S) * 1000
                      ELSE tokenExpiry
    /\ isFetchingToken' = FALSE
    /\ exchResult' = Append(exchResult, "ok")
    /\ IF p = Boot
       THEN /\ pc' = [pc EXCEPT ![p] = "done"]
            /\ UNCHANGED <<sent, err, lastSent>>
       ELSE AttachHeader(p, issued)

ExchangeSucceeds(p, expiresIn) ==
    /\ accessToken' = issued
    /\ tokenExpiry' = now + (expiresIn - EXPIRY_MARGIN_S) * 1000
    /\ isFetchingToken' = FALSE
    /\ exchResult' = Append(exchResult, "ok")
    /\ IF p = Boot
       THEN /\ pc' = [pc EXCEPT ![p] = "done"]
            /\ UNCHANGED <<sent, err, lastSent>>
       ELSE AttachHeader(p, issued)

ExchangeFails_KeepsFlag(p) ==
    /\ accessToken' = NoToken
    /\ tokenExpiry' = NoExpiry
    /\ exchResult' = Append(exchResult, "fail")
    /\ Reject(p, TokenFetchFailed)
    /\ UNCHANGED isFetchingToken

ExchangeFails_KeepsToken(p) ==
    /\ isFetchingToken' = FALSE
    /\ exchResult' = Append(exchResult, "fail")
    /\ Reject(p, TokenFetchFailed)
    /\ UNCHANGED <<accessToken, tokenExpiry>>

ExchangeFails(p) ==
    /\ accessToken' = NoToken
    /\ tokenExpiry' = NoExpiry
    /\ isFetchingToken' = FALSE
    /\ exchResult' = Append(exchResult, "fail")
    /\ Reject(p, TokenFetchFailed)

ExchangeDone(p) ==
    /\ pc[p] = "exchanging"
    /\ \E o \in ExchangeOutcomes, e \in ExpiresInSet :
          IF o = "ok" THEN ExchangeSucceeds(p, e) ELSE ExchangeFails(p)
    /\ UNCHANGED <<now, issued, lastRequestTime, wake, retryCount, resp,
                   delays, only429, waitFor>>
    /\ UNCHANGED normVars

\* ---- the resource API answered (or the connection failed) ----
Response(c) ==
    /\ c \in Clients
    /\ pc[c] = "inflight"
    /\ \E s \in Statuses :
         /\ resp' = [resp EXCEPT ![c] = s]
         /\ only429' = [only429 EXCEPT ![c] = @ /\ s = 429]
         /\ IF s = 200
            THEN /\ pc' = [pc EXCEPT ![c] = "done"]
                 /\ UNCHANGED <<retryCount, wake, delays, err>>
            ELSE IF shouldRetry(retryCount[c], s)
            THEN /\ retryCount' = [retryCount EXCEPT ![c] = @ + 1]
                 /\ wake' = [wake EXCEPT ![c] = now + retryDelay(retryCount[c] + 1)]
                 /\ delays' = [delays EXCEPT ![c] =
                                 Append(@, retryDelay(retryCount[c] + 1))]
                 /\ pc' = [pc EXCEPT ![c] = "backoff"]
                 /\ UNCHANGED err
            ELSE /\ pc' = [pc EXCEPT ![c] = "failed"]
                 /\ err' = [err EXCEPT ![c] = UpstreamError(s)]
                 /\ UNCHANGED <<retryCount, wake, delays>>
    /\ UNCHANGED <<now, tokenVars, paceVars, sent, waitFor>>
    /\ UNCHANGED normVars

\* ---- the backoff timer fired: axios-retry issues the request again ----
RetryFire(c) ==
    /\ c \in Clients
    /\ pc[c] = "backoff"
    /\ now >= wake[c]
    /\ pc' = [pc EXCEPT ![c] = "enter"]
    /\ wake' = [wake EXCEPT ![c] = 0]
    /\ resp' = [resp EXCEPT ![c] = -1]
    /\ UNCHANGED <<now, tokenVars, paceVars, retryCount, sent, err, delays, only429,
                   waitFor>>
    /\ UNCHANGED normVars

\* ---- time passes ----
\* a microtask that is ready ("enter") and a timer that is due run before the
\* clock is read again
Due(p) ==
    \/ pc[p] = "enter"
    \/ pc[p] \in {"pacing", "tokenWait", "backoff"} /\ now >= wake[p]

Advance ==
    /\ now + ClockStep <= BootTime + MaxTime
    /\ \A p \in Procs : ~Due(p)
    /\ now' = now + ClockStep
    /\ UNCHANGED <<tokenVars, procVars, paceVars>>
    /\ UNCHANGED normVars

\* the module has been evaluated: the initial getAppOnlyToken() is awaiting
\* the token endpoint
ModuleLoaded ==
    /\ now = BootTime
    /\ accessToken = NoToken
    /\ tokenExpiry = NoExpiry
    /\ isFetchingToken = TRUE
    /\ lastRequestTime = 0
    /\ issued = 1
    /\ exchResult = <<>>
    /\ pc = [p \in Procs |-> IF p = Boot THEN "exchanging" ELSE "idle"]
    /\ wake = [p \in Procs |-> 0]
    /\ retryCount = [p \in Procs |-> 0]
    /\ sent = [p \in Procs |-> 0]
    /\ resp = [p \in Procs |-> -1]
    /\ err = [p \in Procs |-> NoError]
    /\ delays = [p \in Procs |-> <<>>]
    /\ only429 = [p \in Procs |-> TRUE]
    /\ waitFor = [p \in Procs |-> 0]
    /\ lastSent = -1

Init ==
    /\ ModuleLoaded
    /\ job = NoJob
    /\ out = NoOut
    /\ call = NoCall

Next ==
    \/ \E c \in Clients : Call(c)
    \/ \E c \in Clients : Interceptor(c)
    \/ \E c \in Clients : PacingWake(c)
    \/ \E c \in Clients : TokenWaitWake(c)
    \/ \E p \in Procs : ExchangeDone(p)
    \/ \E c \in Clients : Response(c)
    \/ \E c \in Clients : RetryFire(c)
    \/ Advance

Spec == Init /\ [][Next]_vars

\* ---- one request and the module-load fetch, with the scheduling Node.js
\* guarantees: a ready microtask runs, a due timer fires, the clock moves on.
\* Nothing makes the token endpoint or the resource API answer.
SoloNext ==
    \/ Call("c1")
    \/ Interceptor("c1")
    \/ PacingWake("c1")
    \/ TokenWaitWake("c1")
    \/ \E p \in {Boot, "c1"} : ExchangeDone(p)
    \/ Response("c1")
    \/ RetryFire("c1")
    \/ Advance

LiveSpec ==
    /\ Init
    /\ [][SoloNext]_vars
    /\ WF_vars(Interceptor("c1"))
    /\ WF_vars(PacingWake("c1"))
    /\ WF_vars(TokenWaitWake("c1"))
    /\ WF_vars(RetryFire("c1"))
    /\ WF_vars(Advance)

\* ======================================================================
\* Response normalisation: postController and subredditController
\* ======================================================================
\* wrappers in one comments payload, over all nesting levels
MaxNodes == 4
\* posts in one listing
MaxPosts == 1

\* a JavaScript value handed to formatApiComments: an array, or anything else
Arr(s) == [isArray |-> TRUE, items |-> s]
NotArr == [isArray |-> FALSE, items |-> <<>>]

\* ---- comment wrappers Reddit sends ----
\* hasReplies: data.replies is a listing (Reddit sends "" when there are none);
\* hasChildren: data.children is present on a 'more' wrapper
Wrapper(kind, id, parent, count, hasChildren, children, hasReplies, replies) ==
    [kind |-> kind, id |-> id, parent_id |-> parent, count |-> count,
     hasChildren |-> hasChildren, children |-> children,
     hasReplies |-> hasReplies, replies |-> replies]

LeafWrappers(parent) ==
    { Wrapper("t1", "c1", parent, 0, FALSE, <<>>, FALSE, <<>>),
      Wrapper("t1", "c2", parent, 0, FALSE, <<>>, TRUE, <<>>),
      Wrapper("more", "m1", parent, 2, TRUE, <<"x", "y">>, FALSE, <<>>),
      Wrapper("more", "m2", parent, 0, FALSE, <<>>, FALSE, <<>>),
      Wrapper("t3", "p1", parent, 0, FALSE, <<>>, FALSE, <<>>) }

RECURSIVE Forests(_, _)
\* the wrapper trees of exactly n wrappers below parent
Trees(n, parent) ==
    IF n = 1
    THEN LeafWrappers(parent)
    ELSE { Wrapper("t1", "c3", parent, 0, FALSE, <<>>, TRUE, r) :
             r \in Forests(n - 1, "c3") }

\* the wrapper arrays of exactly n wrappers below parent
Forests(n, parent) ==
    IF n = 0
    THEN {<<>>}
    ELSE UNION { { <<t>> \o f : t \in Trees(k, parent),
                                f \in Forests(n - k, parent) } : k \in 1..n }

CommentArrays == UNION { Forests(n, "t3_post") : n \in 0..MaxNodes }

\* ---- formatApiComments ----
\* the null the map callback returns for an unexpected kind
NullNode == [type |-> "null"]

RECURSIVE formatApiComments(_)
\* the map callback: one wrapper to one node (or null)
formatWrapper_FlatReplies(commentWrapper) ==
    LET kind == commentWrapper.kind
        comment == commentWrapper
    IN  IF kind = "more"
        THEN [type |-> "more", id |-> comment.id, count |-> comment.count,
              parent_id |-> comment.parent_id,
              children_ids |-> IF comment.hasChildren THEN comment.children ELSE <<>>]
        ELSE IF kind = "t1"
        THEN [type |-> "comment", id |-> comment.id,
              parent_id |-> comment.parent_id, replies |-> <<>>]
        ELSE NullNode

formatWrapper(commentWrapper) ==
    LET kind == commentWrapper.kind
        comment == commentWrapper
    IN  IF kind = "more"
        THEN [type |-> "more", id |-> comment.id, count |-> comment.count,
              parent_id |-> comment.parent_id,
              children_ids |-> IF comment.hasChildren THEN comment.children ELSE <<>>]
        ELSE IF kind = "t1"
        THEN LET repliesData == IF comment.hasReplies
                                THEN Arr(comment.replies)
                                ELSE Arr(<<>>)
             IN  [type |-> "comment", id |-> comment.id,
                  parent_id |-> comment.parent_id,
                  replies |-> formatApiComments(repliesData)]
        ELSE NullNode

\* the filter callback
notNull_KeepsAll(c) == TRUE

notNull(c) == c # NullNode

formatApiComments(commentArray) ==
    IF ~commentArray.isArray
    THEN <<>>
    ELSE LET mapped == [i \in 1..Len(commentArray.items) |->
                           formatWrapper(commentArray.items[i])]
         IN  SelectSeq(mapped, notNull)

\* ---- posts Reddit sends ----
\* media-metadata entries of one gallery post
MaxMedia == 3
\* how far a body text may exceed the limit
MaxExtra == 500
\* post.selftext?.substring(0, 2000)
SELFTEXT_LIMIT == 2000

\* a text of n code units
Text(n) == [i \in 1..n |-> i % 7]
NoSelftext == [present |-> FALSE, text |-> <<>>]
Selftexts ==
    {NoSelftext} \cup
    { [present |-> TRUE, text |-> Text(n)] :
        n \in {0, 1, SELFTEXT_LIMIT - 1, SELFTEXT_LIMIT, SELFTEXT_LIMIT + 1,
               SELFTEXT_LIMIT + MaxExtra} }

\* item.m, a MIME type as its characters, or absent
NoMime == [present |-> FALSE, chars |-> <<>>]
Mime(chars) == [present |-> TRUE, chars |-> chars]
MimeTypes == {NoMime, Mime(<<"i", "/", "p", "n", "g">>), Mime(<<"i">>)}
\* item.id of the entries of post.media_metadata, in key order
MediaIds == <<"a", "b", "c", "d", "e">>
MediaItems ==
    [status : {"valid", "failed"}, e : {"Image", "AnimatedImage"}, m : MimeTypes]
NoMetadata == [present |-> FALSE, items |-> <<>>]
MediaMetadata ==
    { [present |-> TRUE, items |-> l] :
        l \in UNION { [1..n -> MediaItems] : n \in 0..MaxMedia } }

\* hasFallback: media.reddit_video.fallback_url is present;
\* hasOverride: url_overridden_by_dest is present
Posts ==
    [is_video : BOOLEAN, is_gallery : BOOLEAN, is_self : BOOLEAN,
     post_hint : {"image", "link", "none"},
     hasFallback : BOOLEAN, hasOverride : BOOLEAN,
     selftext : {NoSelftext}, media_metadata : {NoMetadata}]

\* posts that differ in their gallery
GalleryPosts ==
    [is_video : {FALSE}, is_gallery : {TRUE}, is_self : {FALSE},
     post_hint : {"none"}, hasFallback : {FALSE}, hasOverride : {FALSE},
     selftext : {NoSelftext}, media_metadata : MediaMetadata]
    \cup
    [is_video : {FALSE}, is_gallery : {FALSE}, is_self : {FALSE},
     post_hint : {"image"}, hasFallback : {FALSE}, hasOverride : {FALSE},
     selftext : {NoSelftext},
     media_metadata : {md \in MediaMetadata : Len(md.items) = 1}]

\* posts that differ in their body text
TextPosts ==
    [is_video : BOOLEAN, is_gallery : {FALSE}, is_self : BOOLEAN,
     post_hint : {"none"}, hasFallback : {FALSE}, hasOverride : {FALSE},
     selftext : Selftexts, media_metadata : {NoMetadata}]

PostArrays == UNION { [1..n -> Posts] : n \in 0..MaxPosts }

\* "Determine Post Type"
post_type_SelfFirst(post) ==
    IF post.is_self THEN "text"
    ELSE IF post.is_video THEN "video"
    ELSE IF post.is_gallery THEN "gallery"
    ELSE IF post.post_hint = "image" THEN "image"
    ELSE "link"

post_type(post) ==
    IF post.is_video THEN "video"
    ELSE IF post.is_gallery THEN "gallery"
    ELSE IF post.is_self THEN "text"
    ELSE IF post.post_hint = "image" THEN "image"
    ELSE IF post.post_hint = "link" THEN "link"
    ELSE "link"

\* "Extract Media URL": the name of the field the URL is taken from
media_url_OverrideFirst(post, type) ==
    IF post.hasOverride THEN "url_overridden_by_dest"
    ELSE IF type = "video" /\ post.hasFallback THEN "fallback_url"
    ELSE "url"

media_url(post, type) ==
    IF type = "video" /\ post.hasFallback THEN "fallback_url"
    ELSE IF post.hasOverride THEN "url_overridden_by_dest"
    ELSE "url"

\* "Extract Gallery URLs if applicable"
RECURSIVE split(_, _)
\* String.prototype.split on a separator character
split(s, sep) ==
    IF \A i \in 1..Len(s) : s[i] # sep
    THEN <<s>>
    ELSE LET first == CHOOSE i \in 1..Len(s) :
                         s[i] = sep /\ \A j \in 1..(i - 1) : s[j] # sep
         IN  <<SubSeq(s, 1, first - 1)>> \o split(SubSeq(s, first + 1, Len(s)), sep)

\* item.m?.split('/')[1] || 'jpg'
format(item) ==
    LET parts == IF item.m.present THEN split(item.m.chars, "/") ELSE <<>>
    IN  IF Len(parts) >= 2 /\ parts[2] # <<>> THEN parts[2] ELSE <<"j", "p", "g">>

\* the test of the map callback
isValidImage_StatusOnly(item) == item.status = "valid"

isValidImage(item) == item.status = "valid" /\ item.e = "Image"

NullUrl == <<>>
\* the map callback over Object.keys(post.media_metadata): a URL or null
galleryUrl(item, id) ==
    IF isValidImage(item)
    THEN <<"https://i.redd.it/", id, ".">> \o format(item)
    ELSE NullUrl

NullList == [isNull |-> TRUE, urls |-> <<>>]
gallery_urls(post) ==
    IF post.is_gallery /\ post.media_metadata.present
    THEN LET items == post.media_metadata.items
             mapped == [i \in 1..Len(items) |-> galleryUrl(items[i], MediaIds[i])]
         IN  [isNull |-> FALSE, urls |-> SelectSeq(mapped, LAMBDA url : url # NullUrl)]
    ELSE NullList

\* String.prototype.substring for 0 <= start <= end
substring(s, start, end) ==
    SubSeq(s, start + 1, IF end < Len(s) THEN end ELSE Len(s))

\* post.is_self ? post.selftext?.substring(0, 2000) : null
selftext_NoLimit(post) ==
    IF post.is_self
    THEN IF post.selftext.present
         THEN [kind |-> "string", text |-> post.selftext.text]
         ELSE [kind |-> "undefined", text |-> <<>>]
    ELSE [kind |-> "null", text |-> <<>>]

selftext(post) ==
    IF post.is_self
    THEN IF post.selftext.present
         THEN [kind |-> "string",
               text |-> substring(post.selftext.text, 0, SELFTEXT_LIMIT)]
         ELSE [kind |-> "undefined", text |-> <<>>]
    ELSE [kind |-> "null", text |-> <<>>]

\* the object the map callback of getSubredditPosts returns
formatPost(post) ==
    LET type == post_type(post)
        url == media_url(post, type)
    IN  [is_self |-> post.is_self,
         selftext |-> selftext(post),
         post_type |-> type,
         media_url |-> IF type # "text" THEN url ELSE "null",
         gallery_urls |-> gallery_urls(post)]

\* ---- cleanDescriptionText ----
\* characters of one description text
MaxLen == 3

\* what \s matches, and the line terminators after which ^ matches
Whitespace == {" ", "\n", "\t"}
LineTerminators == {"\n"}

\* index of the first c in s at or after position from, 0 when there is none
IndexOf(s, c, from) ==
    LET at == {i \in from..Len(s) : s[i] = c}
    IN  IF at = {} THEN 0 ELSE CHOOSE i \in at : \A j \in at : i <= j

\* index of the first character of s at or after from that is not in set,
\* Len(s) + 1 when there is none
FirstNotIn(s, set, from) ==
    LET at == {i \in from..Len(s) : s[i] \notin set}
    IN  IF at = {} THEN Len(s) + 1 ELSE CHOOSE i \in at : \A j \in at : i <= j

RECURSIVE removeHtmlTags(_, _)
\* replace(/<[^>]*>/g, ''), from position i on
removeHtmlTags(s, i) ==
    IF i > Len(s) THEN <<>>
    ELSE LET close == IndexOf(s, ">", i + 1) IN
         IF s[i] = "<" /\ close # 0
         THEN removeHtmlTags(s, close + 1)
         ELSE <<s[i]>> \o removeHtmlTags(s, i + 1)

RECURSIVE replaceLinks(_, _)
\* replace(/\[([^\]]+)\]\([^)]+\)/g, '$1'), from position i on
replaceLinks(s, i) ==
    IF i > Len(s) THEN <<>>
    ELSE LET closeText == IndexOf(s, "]", i + 1)
             closeUrl == IF closeText = 0 THEN 0 ELSE IndexOf(s, ")", closeText + 2)
         IN  IF /\ s[i] = "["
                /\ closeText >= i + 2
                /\ closeText + 1 <= Len(s) /\ s[closeText + 1] = "("
                /\ closeUrl >= closeText + 3
             THEN SubSeq(s, i + 1, closeText - 1) \o replaceLinks(s, closeUrl + 1)
             ELSE <<s[i]>> \o replaceLinks(s, i + 1)

\* s has the characters of word at position i
HasAt(s, i, word) ==
    i + Len(word) - 1 <= Len(s) /\ SubSeq(s, i, i + Len(word) - 1) = word

RECURSIVE removeMarkers(_, _)
\* replace(/^#+\s*|---|\*\*|__|\*|_/gm, ''), from position i on
removeMarkers(s, i) ==
    IF i > Len(s) THEN <<>>
    ELSE IF s[i] = "#" /\ (i = 1 \/ s[i - 1] \in LineTerminators)
    THEN removeMarkers(s, FirstNotIn(s, Whitespace, FirstNotIn(s, {"#"}, i)))
    ELSE IF HasAt(s, i, <<"-", "-", "-">>) THEN removeMarkers(s, i + 3)
    ELSE IF HasAt(s, i, <<"*", "*">>) THEN removeMarkers(s, i + 2)
    ELSE IF HasAt(s, i, <<"_", "_">>) THEN removeMarkers(s, i + 2)
    ELSE IF s[i] = "*" THEN removeMarkers(s, i + 1)
    ELSE IF s[i] = "_" THEN removeMarkers(s, i + 1)
    ELSE <<s[i]>> \o removeMarkers(s, i + 1)

RECURSIVE collapseWhitespace(_, _)
\* replace(/\s\s+/g, ' '), from position i on
collapseWhitespace(s, i) ==
    IF i > Len(s) THEN <<>>
    ELSE IF s[i] \in Whitespace /\ i + 1 <= Len(s) /\ s[i + 1] \in Whitespace
    THEN <<" ">> \o collapseWhitespace(s, FirstNotIn(s, Whitespace, i))
    ELSE <<s[i]>> \o collapseWhitespace(s, i + 1)

\* String.prototype.trim
trim(s) ==
    LET first == FirstNotIn(s, Whitespace, 1)
        keep == {i \in 1..Len(s) : s[i] \notin Whitespace}
    IN  IF keep = {} THEN <<>>
        ELSE SubSeq(s, first, CHOOSE i \in keep : \A j \in keep : j <= i)

\* a description: absent (null or undefined) or its characters
NoText == [present |-> FALSE, chars |-> <<>>]

cleanDescriptionText(text) ==
    IF ~text.present \/ text.chars = <<>>
    THEN <<>>
    ELSE LET noTags == removeHtmlTags(text.chars, 1)
             noLinks == replaceLinks(noTags, 1)
             noMarkers == removeMarkers(noLinks, 1)
         IN  trim(collapseWhitespace(noMarkers, 1))

\* ---- errors of a handler and what handleAxiosError passes to next ----
\* the dispatch was rejected with upstream status s
AxiosError(s) == [hasResponse |-> TRUE, status |-> s]
\* an Error or TypeError thrown while the payload is processed
ThrownError == [hasResponse |-> FALSE, status |-> 0]

handleAxiosError(error) ==
    [status |-> IF error.hasResponse THEN error.status ELSE 500]

\* ---- the payloads the handlers are run on ----
\* upstream: final status of the dispatch; the rest describes response.data
CommentJobs ==
    { [op |-> "comments", upstream |-> 200, isArray |-> TRUE, length |-> 2,
       postListing |-> "listing", commentChildren |-> "array", comments |-> f] :
         f \in CommentArrays }

\* the same call answered with a payload of another shape
CommentShapeJobs ==
    { [op |-> "comments", upstream |-> u, isArray |-> a, length |-> n,
       postListing |-> pl, commentChildren |-> cc, comments |-> <<>>] :
         u \in {200, 404}, a \in BOOLEAN, n \in 0..2,
         pl \in {"listing", "empty"}, cc \in {"array", "absent", "object"} }

\* ---- the query string of getSubredditPosts ----
\* characters of one limit value
MaxDigits == 3
\* limit when none is given
DEFAULT_LIMIT == 25
MAX_LIMIT == 100

LimitAlphabet == {"0", "1", "5", "9", "a", "-"}
LimitValues == UNION { [1..n -> LimitAlphabet] : n \in 0..MaxDigits }

DigitChars == {"0", "1", "2", "3", "4", "5", "6", "7", "8", "9"}
DigitValue(c) ==
    CASE c = "0" -> 0 [] c = "1" -> 1 [] c = "2" -> 2 [] c = "3" -> 3
      [] c = "4" -> 4 [] c = "5" -> 5 [] c = "6" -> 6 [] c = "7" -> 7
      [] c = "8" -> 8 [] c = "9" -> 9

RECURSIVE DigitsValue(_)
\* the number a sequence of decimal digits denotes
DigitsValue(ds) ==
    IF ds = <<>> THEN 0
    ELSE 10 * DigitsValue(SubSeq(ds, 1, Len(ds) - 1)) + DigitValue(ds[Len(ds)])

NaN == [nan |-> TRUE, value |-> 0]
\* parseInt(s, 10): leading whitespace, an optional sign, then the longest run
\* of digits; NaN when there is no digit there
parseInt(s) ==
    LET start == FirstNotIn(s, Whitespace, 1)
        signed == start <= Len(s) /\ s[start] \in {"-", "+"}
        from == IF signed THEN start + 1 ELSE start
        to == FirstNotIn(s, DigitChars, from)
        magnitude == DigitsValue(SubSeq(s, from, to - 1))
    IN  IF to = from
        THEN NaN
        ELSE [nan |-> FALSE,
              value |-> IF signed /\ s[start] = "-" THEN 0 - magnitude ELSE magnitude]

\* String.prototype.toLowerCase on the values used here
toLowerCase(x) ==
    IF x = "TOP" THEN "top" ELSE IF x = "WEEK" THEN "week" ELSE x

\* objects as functions from their keys
EmptyObject == <<>>
Obj(k, v) == [x \in {k} |-> v]
\* { ...a, ...b }: the later object wins
spread(a, b) ==
    [k \in DOMAIN a \cup DOMAIN b |-> IF k \in DOMAIN b THEN b[k] ELSE a[k]]
\* const { keys, ...rest } = o
rest(o, keys) == [k \in DOMAIN o \ keys |-> o[k]]

Optional(k, values) == {EmptyObject} \cup { Obj(k, v) : v \in values }

\* req.query
Queries ==
    { spread(l, a) : l \in Optional("limit", LimitValues),
                     a \in Optional("after", {"t3_x"}) }
    \cup
    { spread(spread(srt, t), l) :
        srt \in Optional("sort", {"top", "TOP", "new", "bogus"}),
        t \in Optional("time", {"week", "WEEK", "bogus", ""}),
        l \in Optional("limit", {<<"5">>}) }

allowedSorts == {"hot", "new", "top", "rising"}
allowedTimes == {"hour", "day", "week", "month", "year", "all"}

PostJob(p) ==
    [op |-> "posts", hasName |-> TRUE, query |-> EmptyObject,
     upstream |-> 200, kind |-> "Listing", children |-> "array", posts |-> p]

PostJobs == { PostJob(p) : p \in PostArrays }

\* a listing of one gallery post, of one post with a body text
GalleryPostJobs == { PostJob(<<p>>) : p \in GalleryPosts }

TextPostJobs == { PostJob(<<p>>) : p \in TextPosts }

\* the same call answered with a payload of another shape
PostShapeJobs ==
    { [op |-> "posts", hasName |-> TRUE, query |-> EmptyObject,
       upstream |-> u, kind |-> k, children |-> ch,
       posts |-> <<>>] :
         u \in {200, 404}, k \in {"Listing", "t5", "none"},
         ch \in {"array", "absent", "object"} }

\* the calls that differ in req.params and req.query
PostQueryJobs ==
    { [op |-> "posts", hasName |-> n, query |-> q,
       upstream |-> 200, kind |-> "Listing", children |-> "array",
       posts |-> <<>>] : n \in BOOLEAN, q \in Queries }

\* the characters the enumerated descriptions are made of
Alphabet ==
    {"a", " ", "\n", "\t", "*", "_", "-", "#", "<", ">", "[", "]", "(", ")"}

\* "**Bold** and [a link](http://x) with <b>html</b>"
ExampleText ==
    <<"*", "*", "B", "o", "l", "d", "*", "*", " ", "a", "n", "d", " ", "[",
       "a", " ", "l", "i", "n", "k", "]", "(", "h", "t", "t", "p", ":",
       "/", "/", "x", ")", " ", "w", "i", "t", "h", " ", "<", "b", ">",
       "h", "t", "m", "l", "<", "/", "b", ">">>

\* "# Rules\n\n* be  kind\n---\n[wiki](u) <i>x</i>"
SidebarText ==
    <<"#", " ", "R", "u", "l", "e", "s", "\n", "\n", "*", " ", "b", "e",
       " ", " ", "k", "i", "n", "d", "\n", "-", "-", "-", "\n", "[", "w",
       "i", "k", "i", "]", "(", "u", ")", " ", "<", "i", ">", "x", "<",
       "/", "i", ">">>

DescriptionTexts ==
    UNION { [1..n -> Alphabet] : n \in 0..MaxLen } \cup {ExampleText, SidebarText}

AboutShapeJobs ==
    { [op |-> "about", aboutStatus |-> a, rulesStatus |-> r, kind |-> k,
       hasData |-> d, rules |-> rs, description |-> NoText] :
         a \in {200, 404}, r \in {200, 503}, k \in {"t5", "Listing", "none"},
         d \in BOOLEAN, rs \in {"list", "absent", "object"} }

\* well-formed answers that differ in the description
AboutJobs ==
    { [op |-> "about", aboutStatus |-> 200, rulesStatus |-> 200, kind |-> "t5",
       hasData |-> TRUE, rules |-> "list",
       description |-> [present |-> TRUE, chars |-> t]] :
         t \in DescriptionTexts }

\* final outcomes of the dispatch of validateSubreddit: 200, an error status
\* of Reddit, or NetErr for a failure without a response
ValidateOutcomes == {200, 400, 403, 404, 429, 500, 503, NetErr}

ValidateJobs ==
    { [op |-> "validate", hasName |-> n, upstream |-> u, kind |-> k,
       hasData |-> d] :
         n \in BOOLEAN, u \in ValidateOutcomes,
         k \in {"t5", "Listing", "none"}, d \in BOOLEAN }

\* ---- getPostComments, from the answer of redditApi.get on ----
getPostComments ==
    /\ job.op = "comments"
    /\ out = NoOut
    /\ out' =
         IF job.upstream # 200
         THEN handleAxiosError(AxiosError(job.upstream))
         ELSE IF job.isArray /\ job.length >= 2
         THEN LET postDetails == IF job.postListing = "listing"
                                 THEN "title" ELSE "N/A"
                  commentsData == IF job.commentChildren = "array"
                                  THEN Arr(job.comments)
                                  ELSE IF job.commentChildren = "absent"
                                  THEN Arr(<<>>)
                                  ELSE NotArr
                  formattedComments == formatApiComments(commentsData)
              IN  [status |-> 200, postTitle |-> postDetails,
                   comment_count_this_batch |-> Len(formattedComments),
                   comments |-> formattedComments]
         ELSE handleAxiosError(ThrownError)
    /\ UNCHANGED <<now, tokenVars, procVars, paceVars, job, call>>

\* the error the handler passes to next for a bad parameter
BadRequest == [status |-> 400]

\* ---- getSubredditPosts, up to the call of redditApi.get ----
getSubredditPostsRequest ==
    /\ job.op = "posts"
    /\ out = NoOut
    /\ call = NoCall
    /\ LET query == job.query
           \* the truthiness tests: present and not the empty string
           given(k) == k \in DOMAIN query /\
                       (IF k = "limit" THEN query[k] # <<>> ELSE query[k] # "")
           otherParams == rest(query, {"limit", "sort", "time"})
           effectiveSort ==
               IF given("sort") /\ toLowerCase(query["sort"]) \in allowedSorts
               THEN toLowerCase(query["sort"])
               ELSE "hot"
           parsedLimit == IF given("limit") THEN parseInt(query["limit"]) ELSE NaN
           limitOk == /\ ~parsedLimit.nan
                      /\ parsedLimit.value > 0
                      /\ parsedLimit.value <= MAX_LIMIT
           effectiveLimit == IF given("limit") THEN parsedLimit.value ELSE DEFAULT_LIMIT
           timeOk == given("time") /\ toLowerCase(query["time"]) \in allowedTimes
           effectiveTime == IF timeOk THEN toLowerCase(query["time"]) ELSE "day"
           apiParams ==
               spread(spread(otherParams, Obj("limit", effectiveLimit)),
                      IF effectiveSort = "top" THEN Obj("t", effectiveTime)
                      ELSE EmptyObject)
       IN  IF ~job.hasName
           THEN out' = BadRequest /\ UNCHANGED call
           ELSE IF given("limit") /\ ~limitOk
           THEN out' = BadRequest /\ UNCHANGED call
           ELSE IF effectiveSort = "top" /\ given("time") /\ ~timeOk
           THEN out' = BadRequest /\ UNCHANGED call
           ELSE /\ call' = [path |-> effectiveSort, params |-> apiParams]
                /\ UNCHANGED out
    /\ UNCHANGED <<now, tokenVars, procVars, paceVars, job>>

\* ---- getSubredditPosts, from the answer of redditApi.get on ----
getSubredditPosts ==
    /\ job.op = "posts"
    /\ out = NoOut
    /\ call # NoCall
    /\ out' =
         IF job.upstream # 200
         THEN handleAxiosError(AxiosError(job.upstream))
         ELSE IF job.kind = "Listing" /\ job.children = "array"
         THEN LET posts == [i \in 1..Len(job.posts) |-> formatPost(job.posts[i])]
              IN  [status |-> 200, post_count |-> Len(posts), posts |-> posts]
         ELSE handleAxiosError(ThrownError)
    /\ UNCHANGED <<now, tokenVars, procVars, paceVars, job, call>>

\* ---- getSubredditAbout, from the settling of Promise.all on ----
getSubredditAbout ==
    /\ job.op = "about"
    /\ out = NoOut
    /\ LET failed == {s \in {job.aboutStatus, job.rulesStatus} : s # 200} IN
       IF failed # {}
       THEN \E s \in failed : out' = handleAxiosError(AxiosError(s))
       ELSE out' =
              IF job.kind # "t5" \/ ~job.hasData
              THEN handleAxiosError(ThrownError)
              ELSE IF job.rules = "object"
              THEN handleAxiosError(ThrownError)
              ELSE [status |-> 200,
                    description |-> cleanDescriptionText(job.description),
                    rules |-> IF job.rules = "list" THEN <<"rule">> ELSE <<>>]
    /\ UNCHANGED <<now, tokenVars, procVars, paceVars, job, call>>

\* ---- validateSubreddit ----
\* what the handler has done with res and next so far
NoCalls == [status |-> 0, res |-> 0, next |-> 0]
\* res.status(status).json(...)
resJson(o, status) == [status |-> status, res |-> o.res + 1, next |-> o.next]
\* next(err) with err.status = status
nextError(o, status) == [status |-> status, res |-> o.res, next |-> o.next + 1]

\* the catch block
validateCatch_No400Case(error) ==
    IF error.hasResponse
    THEN nextError(NoCalls, handleAxiosError(error).status)
    ELSE nextError(NoCalls, 500)

validateCatch(error) ==
    IF error.hasResponse
    THEN IF error.status = 400
         THEN resJson(NoCalls, 404)
         ELSE nextError(NoCalls, handleAxiosError(error).status)
    ELSE nextError(NoCalls, 500)

validateSubreddit ==
    /\ job.op = "validate"
    /\ out = NoOut
    /\ out' =
         IF ~job.hasName
         THEN nextError(NoCalls, 400)
         ELSE IF job.upstream = NetErr
         THEN validateCatch(ThrownError)
         ELSE IF job.upstream # 200
         THEN validateCatch(AxiosError(job.upstream))
         ELSE IF job.kind = "t5" /\ job.hasData
         THEN resJson(NoCalls, 200)
         ELSE validateCatch(ThrownError)
    /\ UNCHANGED <<now, tokenVars, procVars, paceVars, job, call>>

NormInit ==
    /\ ModuleLoaded
    /\ \/ job \in CommentJobs
       \/ job \in CommentShapeJobs
       \/ job \in PostJobs
       \/ job \in GalleryPostJobs
       \/ job \in TextPostJobs
       \/ job \in PostShapeJobs
       \/ job \in PostQueryJobs
       \/ job \in AboutShapeJobs
       \/ job \in AboutJobs
       \/ job \in ValidateJobs
    /\ out = NoOut
    /\ call = NoCall

NormNext ==
    \/ getPostComments
    \/ getSubredditPostsRequest
    \/ getSubredditPosts
    \/ getSubredditAbout
    \/ validateSubreddit

NormSpec == NormInit /\ [][NormNext]_vars

\* ---- predicates used by the properties ----
HeldTokenValid ==
    accessToken # NoToken /\ tokenExpiry # NoExpiry /\ now < tokenExpiry

SendsRequest(c) == sent'[c] = sent[c] + 1

PassesPacing(c) ==
    pc[c] \in {"enter", "pacing"} /\ pc'[c] \notin {"enter", "pacing"}

LeavesTokenWait(c) == pc[c] = "tokenWait" /\ pc'[c] # "tokenWait"

ExchangesInFlight == {p \in Procs : pc[p] = "exchanging"}

IsClient4xx(s) == s >= 400 /\ s <= 499 /\ s # 429

\* C1: every HTTP request handed to the adapter starts at least
\* BASE_REQUEST_DELAY_MS after the request sent before it, also when the
\* two dispatches were started together.
C1_MinIntervalBetweenDispatches ==
    [][\A c \in Clients :
          SendsRequest(c) =>
              (lastSent = -1 \/ now - lastSent >= BASE_REQUEST_DELAY_MS)]_vars

\* C2: at most one token exchange is in flight in every reachable state,
\* whatever callers (the module-load fetch included) call getAppOnlyToken.
C2_SingleExchangeInFlight == Cardinality(ExchangesInFlight) <= 1

\* a caller arrived during an exchange and is waiting instead of exchanging
C2_Witness ==
    \E p \in Procs, c \in Clients :
        pc[p] = "exchanging" /\ pc[c] = "tokenWait" /\ waitFor[c] = issued

\* C3: a caller that found an exchange in flight continues only after that
\* exchange completed, with the token it issued when it succeeded and with
\* the exchange's error when it failed.
C3_WaiterObservesExchangeOutcome ==
    [][\A c \in Clients :
          LeavesTokenWait(c) =>
              /\ Len(exchResult) >= waitFor[c]
              /\ exchResult[waitFor[c]] = "ok" =>
                     (pc'[c] = "inflight" /\ accessToken = waitFor[c])
              /\ exchResult[waitFor[c]] = "fail" =>
                     (pc'[c] = "failed" /\ err'[c] = TokenFetchFailed)]_vars

\* C4: the bearer token of every HTTP request is held and not expired
\* (now < tokenExpiry) at the moment it is attached.
C4_BearerValidWhenAttached ==
    [][\A c \in Clients :
          SendsRequest(c) =>
              (accessToken' # NoToken /\ tokenExpiry' # NoExpiry
               /\ now < tokenExpiry')]_vars

\* C5: after an answer with a 4xx status other than 429 the dispatch has
\* failed with that answer as its error and no request followed it: the
\* requests sent are those of the attempts made so far, exactly one when the
\* answer came on the first attempt.
C5_Client4xxNeverRetried ==
    \A c \in Clients :
        IsClient4xx(resp[c]) =>
            /\ pc[c] = "failed"
            /\ err[c] = UpstreamError(resp[c])
            /\ sent[c] = retryCount[c] + 1
            /\ Len(delays[c]) = retryCount[c]
            /\ (retryCount[c] = 0 => sent[c] = 1)

C5_Witness ==
    \E c \in Clients :
        resp[c] = 404 /\ pc[c] = "failed" /\ sent[c] = 1 /\ retryCount[c] = 0

\* C6: the backoff delays scheduled for a dispatch are 1000, 2000 and 4000 ms
\* for retries 1, 2 and 3, and once the fourth request of a dispatch that was
\* only ever answered 429 is answered 429 the dispatch has failed with the
\* 429 error after exactly these three delays.
C6_BackoffOn429 ==
    \A c \in Clients :
        /\ Len(delays[c]) <= 3
        /\ \A i \in 1..Len(delays[c]) :
               delays[c][i] = <<1000, 2000, 4000>>[i]
        /\ (pc[c] = "backoff" =>
               /\ Len(delays[c]) = retryCount[c]
               /\ wake[c] - delays[c][retryCount[c]] <= now)
        /\ (only429[c] /\ resp[c] = 429 /\ sent[c] = 4) =>
               /\ pc[c] = "failed"
               /\ err[c] = UpstreamError(429)
               /\ delays[c] = <<1000, 2000, 4000>>

C6_Witness ==
    \E c \in Clients :
        /\ only429[c] /\ resp[c] = 429 /\ sent[c] = 4
        /\ pc[c] = "failed" /\ delays[c] = <<1000, 2000, 4000>>

\* C7: a dispatch sends at most 1 + RETRY_COUNT HTTP requests, and when the
\* last of them fails the dispatch has ended with that failure as its error.
C7_BoundedAttempts ==
    \A c \in Clients :
        /\ sent[c] <= 1 + RETRY_COUNT
        /\ retryCount[c] <= RETRY_COUNT
        /\ (sent[c] = 1 + RETRY_COUNT /\ resp[c] \notin {-1, 200}) =>
               (pc[c] = "failed" /\ err[c] = UpstreamError(resp[c]))

C7_Witness ==
    \E c \in Clients :
        sent[c] = 1 + RETRY_COUNT /\ resp[c] = NetErr /\ pc[c] = "failed"

\* C8: a dispatch for which no token is obtained (the exchange it triggered
\* failed, or waiting left it without a token) fails with the token
\* manager's error, sends no HTTP request in that attempt and is not retried.
C8_NoTokenFailsWithManagerError ==
    /\ [](\A c \in Clients :
            err[c].src \in {"token", "interceptor"} =>
                /\ pc[c] = "failed"
                /\ err[c] = TokenFetchFailed
                /\ sent[c] = retryCount[c])
    /\ [][\A c \in Clients : SendsRequest(c) => accessToken' # NoToken]_vars

\* C9: when a token exchange fails the manager holds neither token nor
\* expiry afterwards, whatever it held before, and the caller that made the
\* exchange ends with the token manager's error.
C9_FailedExchangeClearsToken ==
    /\ []((exchResult # <<>> /\ Last(exchResult) = "fail") =>
             (accessToken = NoToken /\ tokenExpiry = NoExpiry))
    /\ [][\A p \in Procs :
             (pc[p] = "exchanging" /\ pc'[p] # "exchanging"
              /\ Last(exchResult') = "fail") =>
                 /\ accessToken' = NoToken
                 /\ tokenExpiry' = NoExpiry
                 /\ pc'[p] = "failed"
                 /\ err'[p] = TokenFetchFailed]_vars

\* a token had been issued and the exchange after it failed
C9_Witness ==
    /\ Len(exchResult) >= 2
    /\ exchResult[Len(exchResult) - 1] = "ok"
    /\ Last(exchResult) = "fail"
    /\ accessToken = NoToken
    /\ \E p \in Procs : pc[p] = "failed" /\ err[p] = TokenFetchFailed

\* C10: a dispatch that passes the pacing step while the held token is valid
\* sends its request at once, starts no exchange and leaves accessToken,
\* tokenExpiry and isFetchingToken as they were.
C10_ValidTokenNoExchange ==
    [][\A c \in Clients :
          (HeldTokenValid /\ PassesPacing(c)) =>
              /\ pc'[c] = "inflight"
              /\ issued' = issued
              /\ accessToken' = accessToken
              /\ tokenExpiry' = tokenExpiry
              /\ isFetchingToken' = isFetchingToken]_vars

\* the only exchange ever made is the module-load one and a dispatch that
\* passed the pacing step at this instant has sent its request
C10_Witness ==
    \E c \in Clients :
        /\ pc[c] = "inflight" /\ sent[c] = 1
        /\ \A d \in Clients \ {c} : pc[d] = "idle"
        /\ issued = 1 /\ exchResult = <<"ok">> /\ ~isFetchingToken
        /\ lastRequestTime = now /\ lastSent = now
        /\ HeldTokenValid

\* C11: the HTTP request of every retry is sent at least
\* BASE_REQUEST_DELAY_MS after the request sent before it and carries a token
\* that is held and not expired, a fresh one when the old one expired during
\* the backoff.
C11_RetryRepacedAndRevalidated ==
    [][\A c \in Clients :
          (SendsRequest(c) /\ retryCount[c] >= 1) =>
              /\ lastSent = -1 \/ now - lastSent >= BASE_REQUEST_DELAY_MS
              /\ accessToken' # NoToken
              /\ tokenExpiry' # NoExpiry
              /\ now < tokenExpiry']_vars

\* C12: a failing exchange starts no further exchange and frees the flag;
\* an exchange only ever starts in a step in which a dispatch passes the
\* pacing step; and the first dispatch to pass it while the latest exchange
\* has failed and none is in flight starts exactly one new exchange.
C12_FreshExchangeAfterFailure ==
    [][/\ (Len(exchResult') > Len(exchResult) /\ Last(exchResult') = "fail") =>
              (issued' = issued /\ ~isFetchingToken')
       /\ issued' # issued =>
              \E c \in Clients :
                  PassesPacing(c) /\ pc'[c] = "exchanging"
                  /\ \A p \in Procs \ {c} : pc'[p] = pc[p]
       /\ \A c \in Clients :
              (PassesPacing(c) /\ Len(exchResult) = issued
               /\ Last(exchResult) = "fail") =>
                  /\ pc'[c] = "exchanging"
                  /\ issued' = issued + 1
                  /\ isFetchingToken']_vars

\* an exchange failed and the next dispatch has a new exchange in flight
C12_Witness ==
    /\ exchResult # <<>>
    /\ Last(exchResult) = "fail"
    /\ issued = Len(exchResult) + 1
    /\ isFetchingToken
    /\ \E c \in Clients : pc[c] = "exchanging"

\* C13: lastRequestTime is not written when the pacing wait begins, and the
\* step that writes it is the step that sends the request: every request is
\* sent at the instant held in lastRequestTime, and a dispatch that passed the
\* pacing step is neither suspended again nor failed before its request.
C13_TimestampWrittenAtSend ==
    [][\A c \in Clients :
          /\ (pc[c] = "enter" /\ pc'[c] = "pacing") =>
                 lastRequestTime' = lastRequestTime
          /\ PassesPacing(c) => pc'[c] = "inflight"
          /\ SendsRequest(c) => lastRequestTime' = now]_vars

\* C14: a resource call in flight and a token exchange in flight always come
\* to an end, also when the upstream never answers.
C14_EveryCallTimesOut ==
    /\ \A c \in Clients : (pc[c] = "inflight") ~> (pc[c] # "inflight")
    /\ isFetchingToken ~> ~isFetchingToken

\* C15: token and expiry are absent together or present together, and they
\* change only together: cleared by a failed exchange, or set by a successful
\* one to its token and to its completion time + (expires_in - 60) seconds.
C15_TokenReplacedWholesale ==
    /\ []((accessToken = NoToken) <=> (tokenExpiry = NoExpiry))
    /\ [][(accessToken' # accessToken \/ tokenExpiry' # tokenExpiry) =>
              /\ Len(exchResult') = Len(exchResult) + 1
              /\ \/ /\ Last(exchResult') = "fail"
                    /\ accessToken' = NoToken
                    /\ tokenExpiry' = NoExpiry
                 \/ /\ Last(exchResult') = "ok"
                    /\ accessToken' = Len(exchResult')
                    /\ \E e \in ExpiresInSet :
                          tokenExpiry' = now + (e - 60) * 1000]_vars

\* a held token has been replaced by the token of a later exchange
C15_Witness ==
    /\ Len(exchResult) >= 2
    /\ exchResult[1] = "ok"
    /\ accessToken = Len(exchResult)
    /\ accessToken >= 2
    /\ tokenExpiry > now

\* ---- predicates used by the normalisation properties ----
Answered == out.status # 0
Answered200 == out.status = 200

\* the payload has the structure the handler expects
ExpectedShape(j) ==
    IF j.op = "about"
    THEN j.kind = "t5" /\ j.hasData /\ j.rules = "list"
    ELSE IF j.op = "posts"
    THEN j.kind = "Listing" /\ j.children = "array"
    ELSE /\ j.isArray /\ j.length = 2
         /\ j.postListing = "listing" /\ j.commentChildren = "array"

\* C16: whenever an upstream payload does not have the expected structure
\* (about: kind t5 with data; posts: a Listing with a children array;
\* comments: two listings each with a children array; rules: a rules list), the
\* handler surfaces an error and never answers 200 from defaulted values
C16_ShapeMismatchSurfaced ==
    (Answered /\ ~ExpectedShape(job)) => ~Answered200

\* the wrappers of an array that formatApiComments keeps, in their order
Kept(ws) == SelectSeq(ws, LAMBDA w : w.kind \in {"t1", "more"})

\* the replies array of a 't1' wrapper, empty when it has none
ReplyChildren(w) == IF w.hasReplies THEN w.replies ELSE <<>>

RECURSIVE SameTree(_, _)
\* nodes is the tree of the wrappers ws: one node per kept wrapper, a comment's
\* replies again the tree of its reply children
SameTree(ws, nodes) ==
    LET k == Kept(ws) IN
    /\ Len(nodes) = Len(k)
    /\ \A i \in 1..Len(k) :
         IF k[i].kind = "t1"
         THEN /\ nodes[i].type = "comment"
              /\ nodes[i].id = k[i].id
              /\ SameTree(ReplyChildren(k[i]), nodes[i].replies)
         ELSE /\ nodes[i].type = "more"
              /\ nodes[i].id = k[i].id
              /\ nodes[i].count = k[i].count
              /\ nodes[i].parent_id = k[i].parent_id
              /\ nodes[i].children_ids =
                   IF k[i].hasChildren THEN k[i].children ELSE <<>>

CommentsAnswered == job.op = "comments" /\ Answered200 /\ job.commentChildren = "array"

\* C17: formatApiComments maps a wrapper array to a tree of the same shape:
\* each 't1' wrapper yields one comment node whose replies are the
\* normalisation of its reply children (empty when it has none), each 'more'
\* wrapper one 'more' node with the wrapper's count, parent_id and child ids
\* (empty when absent)
C17_TreeOfSameShape ==
    CommentsAnswered => SameTree(job.comments, out.comments)

\* one comment with two replies and one 'more' sibling gave a root list of two
\* entries, the comment with exactly two reply children
C17_Witness ==
    /\ CommentsAnswered
    /\ Len(job.comments) = 2
    /\ job.comments[1].kind = "t1" /\ Len(job.comments[1].replies) = 2
    /\ \A i \in 1..2 : job.comments[1].replies[i].kind = "t1"
    /\ job.comments[2].kind = "more" /\ job.comments[2].hasChildren
    /\ Len(out.comments) = 2
    /\ out.comments[1].type = "comment" /\ Len(out.comments[1].replies) = 2
    /\ out.comments[2].type = "more" /\ out.comments[2].count = 2
    /\ out.comments[2].children_ids = <<"x", "y">>

RECURSIVE DropsUnknownKinds(_, _)
\* at this level and below: the output has one node per 't1' or 'more' wrapper,
\* in the wrappers' order, and nothing for any other wrapper
DropsUnknownKinds(ws, nodes) ==
    LET keptAt == {i \in 1..Len(ws) : ws[i].kind \in {"t1", "more"}}
        \* position in the output of the wrapper at position i
        pos(i) == Cardinality({j \in keptAt : j <= i})
    IN  /\ Len(nodes) = Cardinality(keptAt)
        /\ \A i \in keptAt :
             /\ nodes[pos(i)].id = ws[i].id
             /\ ws[i].kind = "t1" =>
                  DropsUnknownKinds(ReplyChildren(ws[i]), nodes[pos(i)].replies)

\* C18: at every nesting level formatApiComments drops each wrapper whose
\* kind is neither 't1' nor 'more' without an error, keeps the order of the
\* others, and the output length is the number of 't1' and 'more' wrappers
C18_UnknownKindsDropped ==
    /\ (job.op = "comments" /\ Answered /\ job.upstream = 200 /\ ExpectedShape(job))
          => Answered200
    /\ CommentsAnswered => DropsUnknownKinds(job.comments, out.comments)

\* an unknown wrapper was dropped at the root and another one below a comment,
\* whose remaining reply kept its place
C18_Witness ==
    /\ CommentsAnswered
    /\ Len(job.comments) = 2
    /\ job.comments[1].kind = "t3" /\ job.comments[2].kind = "t1"
    /\ Len(job.comments[2].replies) = 2
    /\ job.comments[2].replies[1].kind = "t3"
    /\ job.comments[2].replies[2].kind = "more"
    /\ Len(out.comments) = 1
    /\ Len(out.comments[1].replies) = 1
    /\ out.comments[1].replies[1].id = job.comments[2].replies[2].id

\* the value of the first entry of an ordered list of checks that holds
FirstThatHolds(checks) ==
    LET hit == {i \in 1..Len(checks) : checks[i].holds}
    IN  checks[CHOOSE i \in hit : \A j \in hit : i <= j].value

PostsAnswered == job.op = "posts" /\ Answered200

\* the fixed order of the type checks, 'link' when none holds
TypeChecks(post) ==
    << [holds |-> post.is_video, value |-> "video"],
       [holds |-> post.is_gallery, value |-> "gallery"],
       [holds |-> post.is_self, value |-> "text"],
       [holds |-> post.post_hint = "image", value |-> "image"],
       [holds |-> TRUE, value |-> "link"] >>

\* C19: the post type is the type of the earliest check that holds in the
\* order is_video -> video, is_gallery -> gallery, is_self -> text,
\* post_hint 'image' -> image, otherwise link, for every combination of flags
C19_FirstMatchingCheckWins ==
    PostsAnswered =>
        \A i \in 1..Len(job.posts) :
            out.posts[i].post_type = FirstThatHolds(TypeChecks(job.posts[i]))

\* a post that is gallery, self post and image at once was typed gallery
C19_Witness ==
    /\ PostsAnswered
    /\ \E i \in 1..Len(job.posts) :
         /\ ~job.posts[i].is_video /\ job.posts[i].is_gallery
         /\ job.posts[i].is_self /\ job.posts[i].post_hint = "image"
         /\ out.posts[i].post_type = "gallery"

\* the order in which the media URL is resolved for a post of the given type
UrlChoices(post, type) ==
    << [holds |-> type = "video" /\ post.hasFallback, value |-> "fallback_url"],
       [holds |-> post.hasOverride, value |-> "url_overridden_by_dest"],
       [holds |-> TRUE, value |-> "url"] >>

\* C20 as stated: every post gets the video fallback URL when it is a video
\* with one, else the destination override when present, else its own URL
C20_EveryPostGetsMediaUrl ==
    PostsAnswered =>
        \A i \in 1..Len(job.posts) :
            out.posts[i].media_url =
                FirstThatHolds(UrlChoices(job.posts[i], out.posts[i].post_type))

\* C20 amended: every post that is not a text post gets the URL resolved in
\* that order; a text post gets no media URL (null)
C20_NonTextPostGetsMediaUrl ==
    PostsAnswered =>
        \A i \in 1..Len(job.posts) :
            out.posts[i].media_url =
                IF out.posts[i].post_type = "text"
                THEN "null"
                ELSE FirstThatHolds(UrlChoices(job.posts[i], out.posts[i].post_type))

\* a video with both a fallback URL and a destination override got the
\* fallback URL
C20_Witness ==
    /\ PostsAnswered
    /\ \E i \in 1..Len(job.posts) :
         /\ job.posts[i].is_video
         /\ job.posts[i].hasFallback /\ job.posts[i].hasOverride
         /\ out.posts[i].media_url = "fallback_url"

\* the positions of the media-metadata entries that are valid images
ValidImageAt(items) ==
    {k \in 1..Len(items) : items[k].status = "valid" /\ items[k].e = "Image"}

\* the extension after "https://i.redd.it/<id>."
ExtensionOf(url) == SubSeq(url, 4, Len(url))

\* the gallery list of one post against its media metadata
GalleryListMatches(post, list) ==
    LET items == post.media_metadata.items
        valid == ValidImageAt(items)
        \* place in the list of the entry at position k
        pos(k) == Cardinality({j \in valid : j <= k})
    IN  /\ ~list.isNull
        /\ Len(list.urls) = Cardinality(valid)
        /\ \A k \in valid :
             LET url == list.urls[pos(k)] IN
             /\ SubSeq(url, 1, 3) = <<"https://i.redd.it/", MediaIds[k], ".">>
             /\ ~items[k].m.present => ExtensionOf(url) = <<"j", "p", "g">>
             /\ items[k].m = Mime(<<"i", "/", "p", "n", "g">>) =>
                    ExtensionOf(url) = <<"p", "n", "g">>

\* C21: for a gallery post the gallery URL list has exactly one entry per
\* media-metadata entry that is a valid image (status 'valid', kind 'Image')
\* and none for any other entry, each https://i.redd.it/<id>.<ext> with <ext>
\* the MIME subtype of the entry, or 'jpg' when the MIME type is absent
C21_GalleryUrlPerValidImage ==
    PostsAnswered =>
        \A i \in 1..Len(job.posts) :
            (job.posts[i].is_gallery /\ job.posts[i].media_metadata.present) =>
                GalleryListMatches(job.posts[i], out.posts[i].gallery_urls)

\* a gallery of two valid images and one entry that is not valid gave exactly
\* two URLs, the first with the MIME subtype, the second with jpg
C21_Witness ==
    /\ PostsAnswered
    /\ Len(job.posts) = 1
    /\ job.posts[1].is_gallery
    /\ LET items == job.posts[1].media_metadata.items
           urls == out.posts[1].gallery_urls.urls
       IN  /\ Len(items) = 3
           /\ items[1].status = "valid" /\ items[1].e = "Image"
           /\ items[1].m = Mime(<<"i", "/", "p", "n", "g">>)
           /\ items[2].status = "failed"
           /\ items[3].status = "valid" /\ items[3].e = "Image"
           /\ items[3].m = NoMime
           /\ urls = << <<"https://i.redd.it/", "a", ".", "p", "n", "g">>,
                        <<"https://i.redd.it/", "c", ".", "j", "p", "g">> >>

\* short is the first min(length, 2000) code units of long
IsTruncationOf(short, long) ==
    /\ Len(short) = (IF Len(long) < 2000 THEN Len(long) ELSE 2000)
    /\ \A k \in 1..Len(short) : short[k] = long[k]

\* C22: the returned body text is null when the post is not a self post; for a
\* self post with body text it is the first min(length, 2000) characters of
\* that text, never longer than 2000
C22_SelftextTruncated ==
    PostsAnswered =>
        \A i \in 1..Len(job.posts) :
            LET post == job.posts[i]
                body == out.posts[i].selftext
            IN  /\ ~post.is_self => body.kind = "null"
                /\ (post.is_self /\ post.selftext.present) =>
                      /\ body.kind = "string"
                      /\ IsTruncationOf(body.text, post.selftext.text)
                      /\ Len(body.text) <= 2000

\* a self post with a body longer than 2000 was cut to 2000
C22_Witness ==
    /\ PostsAnswered
    /\ \E i \in 1..Len(job.posts) :
         /\ job.posts[i].is_self
         /\ job.posts[i].selftext.present
         /\ Len(job.posts[i].selftext.text) > 2000
         /\ Len(out.posts[i].selftext.text) = 2000

AboutAnswered == job.op = "about" /\ Answered200

\* "Bold and a link with html"
ExampleCleaned ==
    <<"B", "o", "l", "d", " ", "a", "n", "d", " ", "a", " ", "l", "i", "n",
       "k", " ", "w", "i", "t", "h", " ", "h", "t", "m", "l">>

\* s has no whitespace other than single spaces between non-space characters
OnlySingleSpaces(s) ==
    /\ \A i \in 1..Len(s) : s[i] \notin {"\n", "\t"}
    /\ \A i \in 1..Len(s) : s[i] = " " =>
          /\ 1 < i /\ i < Len(s)
          /\ s[i - 1] # " " /\ s[i + 1] # " "

\* C23: cleanDescriptionText collapses every run of whitespace, of any length
\* and also a single newline or tab, to one space and trims: the output has no
\* whitespace other than single spaces between non-space characters, and the
\* example text yields 'Bold and a link with html'
C23_WhitespaceCollapsed ==
    AboutAnswered =>
        /\ OnlySingleSpaces(out.description)
        /\ job.description.chars = ExampleText => out.description = ExampleCleaned

ValidateAnswered == job.op = "validate" /\ job.hasName /\ Answered

\* C24: validateSubreddit produces exactly one outcome per request; an upstream
\* 400 is answered directly with a 404 response and next is not called, any
\* other upstream error status s is passed to next with status s, and a failure
\* without an upstream response is passed to next with status 500
C24_ValidateMapsErrors ==
    (job.op = "validate" /\ Answered) =>
        /\ out.res + out.next = 1
        /\ (job.hasName /\ job.upstream = 400) =>
              (out.res = 1 /\ out.next = 0 /\ out.status = 404)
        /\ (job.hasName /\ job.upstream \notin {200, 400, NetErr}) =>
              (out.next = 1 /\ out.status = job.upstream)
        /\ (job.hasName /\ job.upstream = NetErr) =>
              (out.next = 1 /\ out.status = 500)

\* Reddit answered 400 and the handler answered 404 itself
C24_Witness ==
    /\ ValidateAnswered
    /\ job.upstream = 400
    /\ out = [status |-> 404, res |-> 1, next |-> 0]

\* C25: when the /about call succeeds and the /about/rules call issued with
\* it fails, getSubredditAbout still answers with the subreddit metadata and
\* an empty rules list
C25_RulesFailureTolerated ==
    (/\ job.op = "about" /\ Answered
     /\ job.aboutStatus = 200 /\ job.kind = "t5" /\ job.hasData
     /\ job.rulesStatus # 200) =>
        (out.status = 200 /\ out.rules = <<>>)

CallMade == call.path # "none"

\* the request carries a limit (not the empty string)
LimitGiven == "limit" \in DOMAIN job.query /\ job.query["limit"] # <<>>

\* s is a decimal number between 1 and 100
IsNumberIn1to100(s) ==
    /\ s # <<>>
    /\ \A i \in 1..Len(s) : s[i] \in DigitChars
    /\ DigitsValue(s) \in 1..100

\* every upstream call of getSubredditPosts carries a limit in 1..100, 25
\* when the request gave none
SentLimitInRange ==
    (job.op = "posts" /\ CallMade) =>
        /\ call.params["limit"] \in 1..100
        /\ ~LimitGiven => call.params["limit"] = 25

\* C26: getSubredditPosts sends an upstream call only with a limit between 1
\* and 100 (25 when none is given); a request whose limit is not a number in
\* 1..100 is rejected with status 400 without an upstream call, and
\* pass-through parameters never override the validated limit
C26_LimitValidated ==
    /\ SentLimitInRange
    /\ (/\ job.op = "posts" /\ job.hasName
        /\ LimitGiven /\ ~IsNumberIn1to100(job.query["limit"])) =>
           /\ ~CallMade
           /\ Answered => out.status = 400

\* C27: isFetchingToken is true exactly while one token exchange is in
\* flight: it is set when an exchange starts, it is false again when that
\* exchange completes by any path (token issued, body without access_token,
\* thrown error), and a caller that only waits for an exchange in flight, or
\* wakes from that wait, never changes it
C27_FlagTracksExchange ==
    /\ [](isFetchingToken <=> Cardinality(ExchangesInFlight) = 1)
    /\ [][/\ issued' # issued => isFetchingToken'
          /\ Len(exchResult') # Len(exchResult) => ~isFetchingToken'
          /\ \A c \in Clients :
                ((pc'[c] = "tokenWait" /\ pc[c] # "tokenWait") \/ LeavesTokenWait(c)) =>
                    isFetchingToken' = isFetchingToken]_vars

\* after a failed and a successful exchange a third one is in flight, with
\* the flag set and another caller waiting for it
C27_Witness ==
    /\ Len(exchResult) = 2
    /\ \E i, j \in 1..2 : exchResult[i] = "ok" /\ exchResult[j] = "fail"
    /\ isFetchingToken
    /\ Cardinality(ExchangesInFlight) = 1
    /\ \E c \in Clients : pc[c] = "tokenWait"
====
